---- MODULE Spec2Model ----
(***************************************************************************)
(* Enclave Trust Service of rae81/Smart-contract (src/enclave-simulator).  *)
(*                                                                         *)
(* Two simulator variants are modelled side by side:                       *)
(*   "core" : enclave_core.py EnclaveSimulator (AES-CBC, module-global     *)
(*            ENCLAVE_MEMORY), called directly (test_enclave.py) and by    *)
(*            generate_certs_direct.py                                     *)
(*   "sgx"  : enclave_sgx.py SGXEnclave (AES-GCM with AAD, per-instance    *)
(*            _secure_memory), driven by the handlers of enclave_api.py    *)
(*                                                                         *)
(* Library cryptography is abstracted: SHA-256 and the KDFs are injective  *)
(* on the modelled identities, AES is a keyed permutation of blocks, the   *)
(* GCM tag is a keyed digest of nonce, ciphertext and associated data,     *)
(* and an RSA key pair is an identifier.                                   *)
(*                                                                         *)
(* The remote verifier of attestation_verifier.py is modelled with the     *)
(* quotes both simulators generate: a quote is a JSON object of Python     *)
(* values, its sha256 digest is one value per canonical text, and time is  *)
(* counted in seconds UTC with a UTC offset per host.                      *)
(*                                                                         *)
(* Operations are atomic steps in Spec, LoadSpec, OrdererSpec and          *)
(* AttestSpec. RaceSpec runs the /ca/init handler of enclave_api.py        *)
(* statement by statement on several request threads, with the process     *)
(* dying at any statement; VerifierSpec splits verify_quote between its    *)
(* reads of the policy. The source takes no lock in either place.          *)
(***************************************************************************)
EXTENDS Integers, Sequences, FiniteSets, TLC

VARIABLES
    \* ---- sealed-storage harness (pure functions seal_data / unseal_data)
    sPhase,      \* "idle" | "input" | "sealed" | "unsealed"
    sVariant,    \* which simulator seals and unseals
    sPayload,    \* the byte sequence handed to seal_data
    sBlob,       \* the sealed blob as produced by seal_data
    sWire,       \* the blob as presented to unseal_data (possibly altered)
    sMeas,       \* measurement pair of the unsealing instance
    sResult,     \* outcome of unseal_data
    \* ---- the enclave process and its data directory
    variant,     \* "core" | "sgx": which simulator runs; "none" in the harness
    up,          \* the process is running
    meas,        \* MeasurementPair of the running instance
    mem,         \* SecureMemory: ENCLAVE_MEMORY (core) / _secure_memory (sgx)
    inst,        \* core: the instance attributes ca_key / ca_cert
    disk,        \* the data directory: file name -> content or None
    files,       \* files written outside the data directory (organizations/)
    issued,      \* history: every certificate sign_certificate has issued
    roots,       \* history: key ids of the Root CAs generated in this directory
    nkeys,       \* RSA key pairs generated inside the enclave so far
    last,        \* the last operation: name, argument, outcome, returned values
    \* ---- remote attestation (attestation_verifier.py and the quote generators)
    aPhase,      \* "idle" | "setup" | "quoted" | "verifying" | "verified"
    aPolicy,     \* the module-level dict TRUSTED_MEASUREMENTS
    aVerifiers,  \* the AttestationVerifier instances constructed so far
    aConfigured, \* history: per instance, the policy its own operations set up
    aTz,         \* UTC offset (seconds) of the attester's and the verifier's host
    aNow,        \* the current instant, in seconds UTC
    aIssued,     \* history: which attester issued the quote, at which UTC clock reading
    aOrig,       \* the quote as the attester produced it
    aQuote,      \* the quote as presented to verify_quote
    aResult,     \* the last policy operation, then the outcome of verify_quote
    \* ---- request handlers and callers running at the same time
    pc           \* per thread: where it is in its operation, its locals, its answer

sealVars == <<sPhase, sVariant, sPayload, sBlob, sWire, sMeas, sResult>>
caVars == <<variant, up, meas, mem, inst, disk, files, issued, roots, nkeys, last>>

attVars == <<aPhase, aPolicy, aVerifiers, aConfigured, aTz, aNow, aIssued, aOrig, aQuote, aResult>>

vars == <<sealVars, caVars, attVars, pc>>

None == [kind |-> "None"]

\* No verifier is part of the run
AttIdle ==
    /\ aPhase = "idle"
    /\ aPolicy = None
    /\ aVerifiers = <<>>
    /\ aConfigured = <<>>
    /\ aTz = None
    /\ aNow = 0
    /\ aIssued = None
    /\ aOrig = None
    /\ aQuote = None
    /\ aResult = None

-----------------------------------------------------------------------------
(* Bounds of the model *)

MaxLen == 17          \* longest payload handed to seal_data
MaxVerifiers == 2     \* AttestationVerifier instances in one process
MaxThreads == 2       \* requests served at the same time
MaxReplays == 2       \* times one quote is presented again

\* Every thread between two operations
AtRest == [t \in 1..MaxThreads |-> [at |-> "idle", local |-> None, response |-> None]]

-----------------------------------------------------------------------------
(* Bytes and Python slicing *)

RECURSIVE Xor(_, _)
Xor(a, b) ==
    IF a = 0 THEN b
    ELSE IF b = 0 THEN a
    ELSE (((a % 2) + (b % 2)) % 2) + 2 * Xor(a \div 2, b \div 2)

Min(a, b) == IF a < b THEN a ELSE b
Max(a, b) == IF a > b THEN a ELSE b

\* s[:n] for n >= 0
Take(s, n) == SubSeq(s, 1, Min(n, Len(s)))
\* s[n:] for n >= 0
Drop(s, n) == SubSeq(s, Min(n, Len(s)) + 1, Len(s))
\* s[:-n] with Python's reading of the bound: -0 is 0, and a bound before the
\* start of the sequence is the start
DropLast(s, n) == IF n = 0 THEN <<>> ELSE SubSeq(s, 1, Max(Len(s) - n, 0))

Repeat(b, n) == [i \in 1..n |-> b]

Ok(data) == [ok |-> TRUE, err |-> "", data |-> data]
Raise(e) == [ok |-> FALSE, err |-> e, data |-> <<>>]

-----------------------------------------------------------------------------
(* MeasurementIdentity and SealingKeyDeriver *)

\* hashlib.sha256 of an identity string: a digest in four quarters, injective
\* on the identities of the model (a code or signer identity is a number)
Sha256(id) == <<(17 * id + 3) % 256, (29 * id + 5) % 256, (41 * id + 7) % 256, (53 * id + 11) % 256>>

\* The identity strings of the running code, and of a differently built enclave
CodeIds == {1, 2}
SignerIds == {11, 12}
OwnCode == 1
OwnSigner == 11

MeasurementPair(code, signer) == [mr_enclave |-> Sha256(code), mr_signer |-> Sha256(signer)]
Measurements == {MeasurementPair(c, s) : c \in CodeIds, s \in SignerIds}
OwnMeasurement == MeasurementPair(OwnCode, OwnSigner)

\* A KDF output as one key number in 1..255, injective on the salts of the model
KdfKey(salt) == 1 + ((salt[1] * 7 + Len(salt)) % 255)

\* enclave_core: PBKDF2 salted by mr_enclave.encode()[:16], the first 16 hex
\* characters of the digest, i.e. its first quarter; mr_signer is not used
EnclaveSimulator_derive_sealing_key(m) == KdfKey(Take(m.mr_enclave, 1))

\* enclave_sgx: HKDF over CPU_ROOT_KEY salted by mrenclave[:16], the first half
\* of the 32-byte digest; mr_signer is not used
SGXEnclave_derive_seal_key(m) == KdfKey(Take(m.mr_enclave, 2))

-----------------------------------------------------------------------------
(* AES-CBC with manual padding (enclave_core) *)

BLOCK_SIZE == 16
IV_LEN == 16
NONCE_LEN == 12

\* AES on one block: a permutation of blocks for each key
AesEncryptBlock(k, blk) == [i \in 1..Len(blk) |-> (blk[i] + k + i) % 256]
AesDecryptBlock(k, blk) == [i \in 1..Len(blk) |-> (blk[i] + 512 - k - i) % 256]

XorBlock(a, b) == [i \in 1..Len(a) |-> Xor(a[i], b[i])]

RECURSIVE CbcEncrypt(_, _, _)
CbcEncrypt(k, prev, data) ==
    IF Len(data) = 0 THEN <<>>
    ELSE LET c == AesEncryptBlock(k, XorBlock(Take(data, BLOCK_SIZE), prev))
         IN  c \o CbcEncrypt(k, c, Drop(data, BLOCK_SIZE))

RECURSIVE CbcDecrypt(_, _, _)
CbcDecrypt(k, prev, data) ==
    IF Len(data) = 0 THEN <<>>
    ELSE LET c == Take(data, BLOCK_SIZE)
         IN  XorBlock(AesDecryptBlock(k, c), prev) \o CbcDecrypt(k, c, Drop(data, BLOCK_SIZE))

PaddingLengthNoFullBlock(n) == (BLOCK_SIZE - (n % BLOCK_SIZE)) % BLOCK_SIZE
padding_length(n) == BLOCK_SIZE - (n % BLOCK_SIZE)

EnclaveSimulator_seal_data(key, iv, data) ==
    LET pl == padding_length(Len(data))
        padded_data == data \o Repeat(pl, pl)
    IN  iv \o CbcEncrypt(key, iv, padded_data)

EnclaveSimulator_unseal_data(key, sealed_data) ==
    LET iv == Take(sealed_data, IV_LEN)
        encrypted == Drop(sealed_data, IV_LEN)
        padded_data == CbcDecrypt(key, iv, encrypted)
    IN  IF Len(iv) # IV_LEN THEN Raise("ValueError: Invalid IV size")
        ELSE IF Len(encrypted) % BLOCK_SIZE # 0
             THEN Raise("ValueError: data length not a multiple of the block length")
        ELSE IF Len(padded_data) = 0 THEN Raise("IndexError")
        ELSE Ok(DropLast(padded_data, padded_data[Len(padded_data)]))

-----------------------------------------------------------------------------
(* AES-GCM with the measurement pair as associated data (enclave_sgx) *)

\* The 16 tag bytes are one element of the blob: a keyed digest of nonce,
\* ciphertext body and associated data, outside the range of a byte
TAG_LEN == 1

RECURSIVE Digest(_, _)
Digest(h, s) ==
    IF Len(s) = 0 THEN h
    ELSE Digest((h * 31 + s[1] + 1) % 1000003, Drop(s, 1))

GcmTag(key, nonce, body, aad) ==
    256 + Digest(key, nonce \o <<255>> \o body \o <<255>> \o aad)
GcmKeystream(key, nonce, i) == (key * 31 + nonce[1] * 7 + i * 13) % 256
GcmBody(key, nonce, data) == [i \in 1..Len(data) |-> Xor(data[i], GcmKeystream(key, nonce, i))]

AESGCM_encrypt(key, nonce, data, aad) ==
    LET body == GcmBody(key, nonce, data)
    IN  body \o <<GcmTag(key, nonce, body, aad)>>

AESGCM_decrypt(key, nonce, ciphertext, aad) ==
    LET n == Len(ciphertext) - TAG_LEN
        body == Take(ciphertext, Max(n, 0))
    IN  IF Len(nonce) # NONCE_LEN THEN Raise("ValueError: Nonce must be between 8 and 128 bytes")
        ELSE IF n < 0 THEN Raise("InvalidTag")
        ELSE IF ciphertext[Len(ciphertext)] # GcmTag(key, nonce, body, aad) THEN Raise("InvalidTag")
        ELSE Ok(GcmBody(key, nonce, body))

SealAad(m) == m.mr_enclave \o m.mr_signer

SGXEnclave_seal_data(m, nonce, data) ==
    nonce \o AESGCM_encrypt(SGXEnclave_derive_seal_key(m), nonce, data, SealAad(m))

SGXEnclave_unseal_data(m, sealed_data) ==
    LET nonce == Take(sealed_data, NONCE_LEN)
        ciphertext == Drop(sealed_data, NONCE_LEN)
        r == AESGCM_decrypt(SGXEnclave_derive_seal_key(m), nonce, ciphertext, SealAad(m))
    IN  IF r.ok THEN r
        ELSE Raise("ValueError: Unseal failed - wrong enclave or corrupted data")

-----------------------------------------------------------------------------
(* Seal / Unseal of either variant *)

Variants == {"core", "sgx"}

\* os.urandom(16) / os.urandom(12): two of the possible values
RandomBytes(n) == {Repeat(b, n) : b \in {9, 200}}

SealOutputs(v, m, data) ==
    IF v = "core"
    THEN {EnclaveSimulator_seal_data(EnclaveSimulator_derive_sealing_key(m), iv, data) :
              iv \in RandomBytes(IV_LEN)}
    ELSE {SGXEnclave_seal_data(m, nonce, data) : nonce \in RandomBytes(NONCE_LEN)}

Unseal(v, m, sealed_data) ==
    IF v = "core"
    THEN EnclaveSimulator_unseal_data(EnclaveSimulator_derive_sealing_key(m), sealed_data)
    ELSE SGXEnclave_unseal_data(m, sealed_data)

\* The error of the spec's taxonomy that an unseal failure stands for
IntegrityErrors ==
    { "ValueError: Unseal failed - wrong enclave or corrupted data",
      "ValueError: Invalid IV size",
      "ValueError: data length not a multiple of the block length",
      "IndexError" }

-----------------------------------------------------------------------------
(* Harness of the sealed-storage functions *)

PayloadBytes == {0, 1, 16}
Payloads ==
    {<<>>} \cup
    { [i \in 1..n |-> IF i = n THEN b ELSE 65] : n \in 1..MaxLen, b \in PayloadBytes }

\* One element of the blob altered: a flipped bit of a byte or of the tag
AlterAt(blob, i) == [blob EXCEPT ![i] = Xor(blob[i], 1)]

\* The enclave process is not part of the sealed-storage harness
CaIdle ==
    /\ variant = "none"
    /\ up = FALSE
    /\ meas = OwnMeasurement
    /\ mem = None
    /\ inst = None
    /\ disk = None
    /\ files = {}
    /\ issued = {}
    /\ roots = {}
    /\ nkeys = 0
    /\ last = None

SealInit ==
    /\ sPhase = "input"
    /\ sVariant \in Variants
    /\ sPayload \in Payloads
    /\ sBlob = <<>>
    /\ sWire = <<>>
    /\ sMeas = OwnMeasurement
    /\ sResult = None
    /\ CaIdle
    /\ AttIdle
    /\ pc = AtRest

\* Seal(plaintext) on the instance with the code's own measurements
DoSeal ==
    /\ sPhase = "input"
    /\ \E blob \in SealOutputs(sVariant, OwnMeasurement, sPayload) :
          /\ sBlob' = blob
          /\ sWire' = blob
    /\ sPhase' = "sealed"
    /\ UNCHANGED <<sVariant, sPayload, sMeas, sResult>>
    /\ UNCHANGED <<caVars, attVars, pc>>

\* The blob is altered between sealing and unsealing
DoAlter ==
    /\ sPhase = "sealed"
    /\ sWire = sBlob
    /\ \E i \in 1..Len(sBlob) : sWire' = AlterAt(sBlob, i)
    /\ UNCHANGED <<sPhase, sVariant, sPayload, sBlob, sMeas, sResult>>
    /\ UNCHANGED <<caVars, attVars, pc>>

\* Unseal(blob) on an instance with measurement pair m (m = OwnMeasurement: the
\* sealing instance, or the same code after a restart)
DoUnseal ==
    /\ sPhase = "sealed"
    /\ \E m \in Measurements :
          /\ sMeas' = m
          /\ sResult' = Unseal(sVariant, m, sWire)
    /\ sPhase' = "unsealed"
    /\ UNCHANGED <<sVariant, sPayload, sBlob, sWire>>
    /\ UNCHANGED <<caVars, attVars, pc>>

SealNext == DoSeal \/ DoAlter \/ DoUnseal

SealSpec == SealInit /\ [][SealNext]_vars

-----------------------------------------------------------------------------
(* Sealed storage: claims *)

Unsealed == sPhase = "unsealed"
Unaltered == sWire = sBlob
SameInstance == sMeas = OwnMeasurement
ReturnsPayload == sResult.ok /\ sResult.data = sPayload

\* C2: Unseal(Seal(p)) returns exactly p within one enclave instance, for every
\* byte sequence p, the empty one and whole multiples of the block size included
C2_RoundTrip ==
    (Unsealed /\ Unaltered /\ SameInstance) => ReturnsPayload

C2_Witness ==
    /\ Unsealed /\ Unaltered /\ SameInstance
    /\ sVariant = "core"
    /\ Len(sPayload) = BLOCK_SIZE
    /\ ReturnsPayload

\* C3: altering any part of a sealed blob before Unseal makes Unseal fail with
\* IntegrityError; Unseal never returns a plaintext other than the sealed one
C3_TamperDetected ==
    (Unsealed /\ ~Unaltered /\ SameInstance) =>
        (~sResult.ok /\ sResult.err \in IntegrityErrors)

\* C4: another instance unseals a blob to the original plaintext if and only if
\* it has the same MeasurementPair; an instance whose code measurement or whose
\* signer measurement differs fails closed
C4_MeasurementBinding ==
    (Unsealed /\ Unaltered) =>
        /\ SameInstance <=> ReturnsPayload
        /\ ~SameInstance => (~sResult.ok /\ sResult.err \in IntegrityErrors)

-----------------------------------------------------------------------------
(* Keys, certificates and their encodings *)

MaxKeys == 2          \* RSA key pairs generated inside the enclave

RSAPrivateKey(id) == [kind |-> "RSAPrivateKey", id |-> id]
Bytes(data) == [kind |-> "bytes", data |-> data]

\* private_bytes(PEM, PKCS8, NoEncryption): header, key body (the key and a
\* value redundant with it, as the parts of an RSA key are), footer
PemPrivateKey(id) == <<45, 45, id, 255 - id, 45, 45>>

\* serialization.load_pem_private_key
load_pem_private_key(data) ==
    IF /\ Len(data) = 6
       /\ data[1] = 45 /\ data[2] = 45 /\ data[5] = 45 /\ data[6] = 45
       /\ data[3] + data[4] = 255
    THEN [ok |-> TRUE, err |-> "", key |-> RSAPrivateKey(data[3])]
    ELSE [ok |-> FALSE, err |-> "ValueError: Could not deserialize key data", key |-> None]

\* cert.public_bytes(PEM) and x509.load_pem_x509_certificate
PemCertificate(cert) == [kind |-> "pem_certificate", cert |-> cert]
load_pem_x509_certificate(pem) == pem.cert

NoPathLength == 0 - 1
DigitalSignature == "digital_signature"
KeyCertSign == "key_cert_sign"
CrlSign == "crl_sign"
KeyEncipherment == "key_encipherment"

CoreRootSubject == "CN=Fabric Enclave Root CA"
SgxRootSubject == "CN=DFIR SGX Root CA"

\* The self-signed Root CA certificate of generate_root_ca
RootCertificate(subject, k, path_length) ==
    [kind |-> "Certificate", subject |-> subject, issuer |-> subject,
     public_key |-> k, signed_by |-> k, ca |-> TRUE, path_length |-> path_length,
     key_usage |-> {DigitalSignature, KeyCertSign, CrlSign},
     validity_days |-> 3650, ski |-> k, aki |-> 0]

\* A certificate signing request: subject, public key, and the key that made its
\* self-signature (is_signature_valid: it is the request's own key)
TlsKey == 103
CsrFor(cn, k, s) == [kind |-> "pem_csr", subject |-> cn, public_key |-> k, signed_by |-> s]
MalformedCsr == [kind |-> "pem_garbage"]
CsrInputs ==
    { CsrFor("CN=orderer0.hot-chain.com", 101, 101),
      CsrFor("CN=orderer0.hot-chain.com", 101, 102),
      MalformedCsr }
is_signature_valid(csr) == csr.signed_by = csr.public_key

CertTypes == {"intermediate-ca", "intermediate", "orderer", "peer", "client"}

\* enclave_core.sign_certificate: validity and extensions by certificate type
EnclaveSimulator_validity_days(cert_type) ==
    IF cert_type = "intermediate-ca" THEN 1825
    ELSE IF cert_type = "orderer" THEN 825
    ELSE 365

EnclaveSimulator_extensions(cert_type) ==
    IF cert_type = "intermediate-ca"
    THEN [ca |-> TRUE, path_length |-> 0,
          key_usage |-> {DigitalSignature, KeyCertSign, CrlSign}]
    ELSE IF cert_type \in {"peer", "orderer"}
    THEN [ca |-> FALSE, path_length |-> NoPathLength,
          key_usage |-> {DigitalSignature, KeyEncipherment}]
    ELSE [ca |-> FALSE, path_length |-> NoPathLength,
          key_usage |-> {DigitalSignature}]

\* enclave_sgx.sign_certificate: extensions by certificate type; CA=true exactly
\* when a path length was chosen
SGXEnclave_extensions(cert_type) ==
    LET path_length == IF cert_type = "intermediate" THEN 1 ELSE NoPathLength
        key_usage ==
            IF cert_type = "intermediate"
            THEN {DigitalSignature, KeyCertSign, CrlSign}
            ELSE IF cert_type = "peer"
            THEN {DigitalSignature, KeyEncipherment}
            ELSE {DigitalSignature, KeyEncipherment}
    IN  [ca |-> path_length # NoPathLength, path_length |-> path_length,
         key_usage |-> key_usage]

\* The certificate built from a CSR and signed with ca_key
BuildCertificate(csr, ext, days, ca_cert, ca_key, ski, aki) ==
    [kind |-> "Certificate", subject |-> csr.subject, issuer |-> ca_cert.subject,
     public_key |-> csr.public_key, signed_by |-> ca_key.id,
     ca |-> ext.ca, path_length |-> ext.path_length, key_usage |-> ext.key_usage,
     validity_days |-> days, ski |-> ski, aki |-> aki]

\* signature verification under a public key
VerifiesUnder(cert, public_key) == cert.signed_by = public_key

-----------------------------------------------------------------------------
(* The data directory and SecureMemory *)

KeyFile == "root_ca_key.sealed"
CertFile == "root_ca_cert.pem"
CoreOrdererFile == "orderer_key.sealed"
SgxOrdererFile(chain) == IF chain = "hot" THEN "orderer_hot_key.sealed" ELSE "orderer_cold_key.sealed"
SgxOrdererSlot(chain) == IF chain = "hot" THEN "orderer_hot_key" ELSE "orderer_cold_key"

EmptyDisk(v) ==
    IF v = "core"
    THEN [f \in {KeyFile, CertFile, CoreOrdererFile} |-> None]
    ELSE [f \in {KeyFile, CertFile, SgxOrdererFile("hot"), SgxOrdererFile("cold")} |-> None]

\* ENCLAVE_MEMORY of enclave_core / _secure_memory of SGXEnclave.__init__
EmptyMemory(v) ==
    IF v = "core"
    THEN [slot \in {"root_ca_key", "root_ca_cert", "orderer_key"} |-> None]
    ELSE [slot \in {"root_ca_key", "root_ca_cert", "orderer_hot_key", "orderer_cold_key",
                    "attestation_key"} |-> None]

\* os.urandom(n) as the key-management operations draw it
urandom(n) == {Repeat(200, n)}

NoAttributes == [ca_key |-> None, ca_cert |-> None]

\* Files written outside the data directory (organizations/...)
Chains == {"hot", "cold"}
OrdererName(chain) == IF chain = "hot" THEN "CN=orderer0.hot-chain.com" ELSE "CN=orderer0.cold-chain.com"
KeystorePath(chain) == <<chain, "msp/keystore/<ski>_sk">>
SigncertPath(chain) == <<chain, "msp/signcerts/cert.pem">>
TlsKeyPath(chain) == <<chain, "tls/server.key">>
OutPaths == UNION {{KeystorePath(c), SigncertPath(c), TlsKeyPath(c)} : c \in Chains}
NoFiles == [p \in OutPaths |-> None]

exists(f) == disk[f] # None

Result(op, arg, ok, err, ret) == [op |-> op, arg |-> arg, ok |-> ok, err |-> err, ret |-> ret]
Bool(b) == [kind |-> "bool", value |-> b]
RSAPublicKey(id) == [kind |-> "RSAPublicKey", id |-> id]
IssuedAs(cert) == [issuer |-> cert.issuer, signed_by |-> cert.signed_by]

-----------------------------------------------------------------------------
(* enclave_core.EnclaveSimulator *)

\* What load_root_ca leaves: the outcome, SecureMemory and the attributes
Loaded(ok, err, ret, memory, attributes) ==
    [ok |-> ok, err |-> err, ret |-> ret, mem |-> memory, inst |-> attributes]

EnclaveSimulator_load_root_ca(m) ==
    LET unsealed == EnclaveSimulator_unseal_data(EnclaveSimulator_derive_sealing_key(m),
                                                 disk[KeyFile].data)
        parsed == load_pem_private_key(unsealed.data)
        cert == load_pem_x509_certificate(disk[CertFile])
    IN  IF ~exists(KeyFile) THEN Loaded(FALSE, "FileNotFoundError", FALSE, mem, inst)
        ELSE IF ~unsealed.ok THEN Loaded(FALSE, unsealed.err, FALSE, mem, inst)
        ELSE IF ~parsed.ok THEN Loaded(FALSE, parsed.err, FALSE, mem, inst)
        ELSE IF ~exists(CertFile) THEN Loaded(FALSE, "FileNotFoundError", FALSE, mem, inst)
        ELSE Loaded(TRUE, "", TRUE,
                    [mem EXCEPT !["root_ca_key"] = parsed.key, !["root_ca_cert"] = cert],
                    [ca_key |-> parsed.key, ca_cert |-> cert])

\* generate_root_ca: a fresh key, the self-signed certificate, the sealed key
\* and the certificate written to disk, SecureMemory and the attributes set;
\* returns (cert, private_key)
GenerateRootCAEffect(op, iv) ==
    LET k == nkeys + 1
        private_key == RSAPrivateKey(k)
        cert == RootCertificate(CoreRootSubject, k, NoPathLength)
        sealed_key == EnclaveSimulator_seal_data(EnclaveSimulator_derive_sealing_key(meas),
                                                 iv, PemPrivateKey(k))
    IN  /\ disk' = [disk EXCEPT ![KeyFile] = Bytes(sealed_key),
                                ![CertFile] = PemCertificate(cert)]
        /\ mem' = [mem EXCEPT !["root_ca_key"] = private_key, !["root_ca_cert"] = cert]
        /\ inst' = [ca_key |-> private_key, ca_cert |-> cert]
        /\ nkeys' = k
        /\ roots' = roots \cup {k}
        /\ last' = Result(op, None, TRUE, "", <<cert, private_key>>)

EnclaveSimulator_generate_root_ca ==
    /\ variant = "core" /\ up
    /\ nkeys < MaxKeys
    /\ \E iv \in urandom(IV_LEN) : GenerateRootCAEffect("generate_root_ca", iv)
    /\ UNCHANGED <<variant, up, meas, files, issued>>
    /\ UNCHANGED <<sealVars, attVars, pc>>

LoadRootCA ==
    /\ variant = "core" /\ up
    /\ LET r == EnclaveSimulator_load_root_ca(meas)
       IN  /\ mem' = r.mem
           /\ inst' = r.inst
           /\ last' = Result("load_root_ca", None, r.ok, r.err, <<>>)
    /\ UNCHANGED <<variant, up, meas, disk, files, issued, roots, nkeys>>
    /\ UNCHANGED <<sealVars, attVars, pc>>

\* sign_certificate(csr_pem, cert_type): the outcome, the certificate, and the
\* SecureMemory / attributes it leaves (a Root CA not resident is loaded first)
Signed(ok, err, cert, memory, attributes) ==
    [ok |-> ok, err |-> err, cert |-> cert, mem |-> memory, inst |-> attributes]

EnclaveSimulator_sign_certificate(csr_pem, cert_type) ==
    LET loaded == IF mem["root_ca_cert"] = None
                  THEN EnclaveSimulator_load_root_ca(meas)
                  ELSE Loaded(TRUE, "", TRUE, mem, inst)
        ca_key == loaded.mem["root_ca_key"]
        ca_cert == loaded.mem["root_ca_cert"]
        cert == BuildCertificate(csr_pem, EnclaveSimulator_extensions(cert_type),
                                 EnclaveSimulator_validity_days(cert_type),
                                 ca_cert, ca_key, csr_pem.public_key, ca_key.id)
    IN  IF ~loaded.ok THEN Signed(FALSE, loaded.err, None, loaded.mem, loaded.inst)
        ELSE IF csr_pem.kind # "pem_csr"
        THEN Signed(FALSE, "ValueError: Unable to load PEM file", None, loaded.mem, loaded.inst)
        ELSE Signed(TRUE, "", cert, loaded.mem, loaded.inst)

SignCertificate ==
    /\ variant = "core" /\ up
    /\ \E csr_pem \in CsrInputs, cert_type \in CertTypes :
          LET r == EnclaveSimulator_sign_certificate(csr_pem, cert_type)
          IN  /\ mem' = r.mem
              /\ inst' = r.inst
              /\ issued' = IF r.ok THEN issued \cup {IssuedAs(r.cert)} ELSE issued
              /\ last' = Result("sign_certificate", [csr |-> csr_pem, cert_type |-> cert_type],
                                r.ok, r.err,
                                IF r.ok THEN <<PemCertificate(r.cert)>> ELSE <<>>)
    /\ UNCHANGED <<variant, up, meas, disk, files, roots, nkeys>>
    /\ UNCHANGED <<sealVars, attVars, pc>>

\* store_orderer_key(key_pem): the sealed bytes are written, then the key is parsed
MalformedKeyPem == <<45, 45, 7>>
OrdererKeyPems == {PemPrivateKey(101), MalformedKeyPem}

StoreOrdererKeyEffect(key_pem, iv) ==
    LET sealed_key == EnclaveSimulator_seal_data(EnclaveSimulator_derive_sealing_key(meas),
                                                 iv, key_pem)
        parsed == load_pem_private_key(key_pem)
    IN  [disk |-> [disk EXCEPT ![CoreOrdererFile] = Bytes(sealed_key)],
         mem |-> IF parsed.ok THEN [mem EXCEPT !["orderer_key"] = parsed.key] ELSE mem,
         ok |-> parsed.ok, err |-> parsed.err]

EnclaveSimulator_store_orderer_key ==
    /\ variant = "core" /\ up
    /\ \E key_pem \in OrdererKeyPems, iv \in urandom(IV_LEN) :
          LET r == StoreOrdererKeyEffect(key_pem, iv)
          IN  /\ disk' = r.disk
              /\ mem' = r.mem
              /\ last' = Result("store_orderer_key", Bytes(key_pem), r.ok, r.err, <<>>)
    /\ UNCHANGED <<variant, up, meas, inst, files, issued, roots, nkeys>>
    /\ UNCHANGED <<sealVars, attVars, pc>>

\* sign_block(block_data): an orderer key not resident is unsealed from disk first;
\* the PSS signature is salted
BlockData == <<7>>
PssSalts == {1, 2}
Signature(key, data, salt) == [kind |-> "signature", key |-> key.id, data |-> data, salt |-> salt]

EnclaveSimulator_sign_block ==
    /\ variant = "core" /\ up
    /\ LET unsealed == EnclaveSimulator_unseal_data(EnclaveSimulator_derive_sealing_key(meas),
                                                    disk[CoreOrdererFile].data)
           parsed == load_pem_private_key(unsealed.data)
           failed(e) == /\ mem' = mem
                        /\ last' = Result("sign_block", Bytes(BlockData), FALSE, e, <<>>)
           signed(memory) ==
                /\ mem' = memory
                /\ \E salt \in PssSalts :
                      last' = Result("sign_block", Bytes(BlockData), TRUE, "",
                                     <<Signature(memory["orderer_key"], BlockData, salt)>>)
       IN  IF mem["orderer_key"] # None THEN signed(mem)
           ELSE IF ~exists(CoreOrdererFile) THEN failed("Exception: Orderer key not found in enclave")
           ELSE IF ~unsealed.ok THEN failed(unsealed.err)
           ELSE IF ~parsed.ok THEN failed(parsed.err)
           ELSE signed([mem EXCEPT !["orderer_key"] = parsed.key])
    /\ UNCHANGED <<variant, up, meas, inst, disk, files, issued, roots, nkeys>>
    /\ UNCHANGED <<sealVars, attVars, pc>>

-----------------------------------------------------------------------------
(* generate_certs_direct.FabricCertGenerator *)

\* __init__: a new EnclaveSimulator; the Root CA is created when no certificate
\* file exists and loaded otherwise; an exception ends the run
FabricCertGenerator_init ==
    /\ variant = "core" /\ up
    /\ IF ~exists(CertFile)
       THEN /\ nkeys < MaxKeys
            /\ \E iv \in urandom(IV_LEN) : GenerateRootCAEffect("FabricCertGenerator", iv)
            /\ UNCHANGED up
       ELSE LET r == EnclaveSimulator_load_root_ca(meas)
            IN  /\ mem' = r.mem
                /\ inst' = IF r.ok THEN r.inst ELSE NoAttributes
                /\ up' = r.ok
                /\ last' = Result("FabricCertGenerator", None, r.ok, r.err, <<>>)
                /\ UNCHANGED <<disk, roots, nkeys>>
    /\ UNCHANGED <<variant, meas, files, issued>>
    /\ UNCHANGED <<sealVars, attVars, pc>>

\* generate_orderer_certs(chain_type): signing key and certificate, the key saved
\* to the keystore and stored in the enclave, then the TLS key and certificate
FabricCertGenerator_generate_orderer_certs ==
    /\ variant = "core" /\ up
    /\ inst.ca_cert # None
    /\ mem["root_ca_cert"] # None
    /\ nkeys < MaxKeys
    /\ \E chain_type \in Chains, iv \in urandom(IV_LEN) :
          LET signing_key == nkeys + 1
              signing_csr == CsrFor(OrdererName(chain_type), signing_key, signing_key)
              signing == EnclaveSimulator_sign_certificate(signing_csr, "orderer")
              signing_key_pem == PemPrivateKey(signing_key)
              stored == StoreOrdererKeyEffect(signing_key_pem, iv)
              tls == EnclaveSimulator_sign_certificate(
                         CsrFor(OrdererName(chain_type), TlsKey, TlsKey), "orderer")
          IN  /\ files' = [files EXCEPT ![SigncertPath(chain_type)] = PemCertificate(signing.cert),
                                        ![KeystorePath(chain_type)] = Bytes(signing_key_pem),
                                        ![TlsKeyPath(chain_type)] = Bytes(PemPrivateKey(TlsKey))]
              /\ disk' = stored.disk
              /\ mem' = stored.mem
              /\ issued' = issued \cup {IssuedAs(signing.cert), IssuedAs(tls.cert)}
              /\ nkeys' = signing_key
              /\ last' = Result("generate_orderer_certs", [chain |-> chain_type], TRUE, "", <<>>)
    /\ UNCHANGED <<variant, up, meas, inst, roots>>
    /\ UNCHANGED <<sealVars, attVars, pc>>

-----------------------------------------------------------------------------
(* enclave_sgx.SGXEnclave *)

\* load_sealed_root_ca: False when a file is missing; an unseal or parse failure raises
SealedRootCAKeyFileExists == exists(KeyFile)

SealedRootCAFilesExist == exists(KeyFile) /\ exists(CertFile)

SGXEnclave_load_sealed_root_ca(m, memory) ==
    LET unsealed == SGXEnclave_unseal_data(m, disk[KeyFile].data)
        parsed == load_pem_private_key(unsealed.data)
        cert == load_pem_x509_certificate(disk[CertFile])
    IN  IF ~SealedRootCAFilesExist THEN Loaded(TRUE, "", FALSE, memory, NoAttributes)
        ELSE IF ~unsealed.ok THEN Loaded(FALSE, unsealed.err, FALSE, memory, NoAttributes)
        ELSE IF ~parsed.ok THEN Loaded(FALSE, parsed.err, FALSE, memory, NoAttributes)
        ELSE IF ~exists(CertFile) THEN Loaded(FALSE, "FileNotFoundError", FALSE, memory, NoAttributes)
        ELSE Loaded(TRUE, "", TRUE,
                    [memory EXCEPT !["root_ca_key"] = parsed.key, !["root_ca_cert"] = cert],
                    NoAttributes)

\* sign_certificate(csr_pem, cert_type, validity_days)
SGXEnclave_sign_certificate(csr_pem, cert_type, validity_days) ==
    LET ca_key == mem["root_ca_key"]
        ca_cert == mem["root_ca_cert"]
        cert == BuildCertificate(csr_pem, SGXEnclave_extensions(cert_type), validity_days,
                                 ca_cert, ca_key, 0, 0)
    IN  IF ca_key = None
        THEN Signed(FALSE, "ValueError: Root CA not initialized in enclave", None, mem, inst)
        ELSE IF csr_pem.kind # "pem_csr"
        THEN Signed(FALSE, "ValueError: Unable to load PEM file", None, mem, inst)
        ELSE IF ~is_signature_valid(csr_pem)
        THEN Signed(FALSE, "ValueError: Invalid CSR signature", None, mem, inst)
        ELSE Signed(TRUE, "", cert, mem, inst)

-----------------------------------------------------------------------------
(* enclave_api: the REST service around one SGXEnclave *)

Http(status, text) == <<status, text>>
DefaultValidityDays == 365
DefaultCertType == "client"

\* POST /ca/init
api_initialize_root_ca ==
    /\ variant = "sgx" /\ up
    /\ IF mem["root_ca_key"] # None
       THEN /\ last' = Result("initialize_root_ca", None, FALSE,
                              Http(400, "Root CA already initialized"), <<>>)
            /\ UNCHANGED <<mem, disk, nkeys, roots>>
       ELSE /\ nkeys < MaxKeys
            /\ \E nonce \in urandom(NONCE_LEN) :
                  LET k == nkeys + 1
                      private_key == RSAPrivateKey(k)
                      cert == RootCertificate(SgxRootSubject, k, 2)
                      sealed_key == SGXEnclave_seal_data(meas, nonce, PemPrivateKey(k))
                  IN  /\ mem' = [mem EXCEPT !["root_ca_key"] = private_key,
                                            !["root_ca_cert"] = cert]
                      /\ disk' = [disk EXCEPT ![KeyFile] = Bytes(sealed_key),
                                              ![CertFile] = PemCertificate(cert)]
                      /\ nkeys' = k
                      /\ roots' = roots \cup {k}
                      /\ last' = Result("initialize_root_ca", None, TRUE, Http(200, "success"),
                                        <<PemCertificate(cert)>>)
    /\ UNCHANGED <<variant, up, meas, inst, files, issued>>
    /\ UNCHANGED <<sealVars, attVars, pc>>

\* POST /ca/sign
ApiCsrInputs == CsrInputs \cup {None}
TypeAbsent == ""
ApiCertTypes == CertTypes \cup {TypeAbsent}

api_root_ca_key_unchecked == FALSE

api_root_ca_key_missing == mem["root_ca_key"] = None

api_sign_certificate ==
    /\ variant = "sgx" /\ up
    /\ \E csr \in ApiCsrInputs, type \in ApiCertTypes :
          LET cert_type == IF type = TypeAbsent THEN DefaultCertType ELSE type
              r == SGXEnclave_sign_certificate(csr, cert_type, DefaultValidityDays)
              arg == [csr |-> csr, cert_type |-> cert_type]
          IN  IF api_root_ca_key_missing
              THEN /\ last' = Result("sign_certificate", arg, FALSE,
                                     Http(400, "Root CA not initialized"), <<>>)
                   /\ UNCHANGED issued
              ELSE IF csr = None
              THEN /\ last' = Result("sign_certificate", arg, FALSE,
                                     Http(400, "Missing CSR in request"), <<>>)
                   /\ UNCHANGED issued
              ELSE IF ~r.ok
              THEN /\ last' = Result("sign_certificate", arg, FALSE, Http(500, r.err), <<>>)
                   /\ UNCHANGED issued
              ELSE /\ last' = Result("sign_certificate", arg, TRUE, Http(200, "success"),
                                     <<PemCertificate(r.cert)>>)
                   /\ issued' = issued \cup {IssuedAs(r.cert)}
    /\ UNCHANGED <<variant, up, meas, mem, inst, disk, files, roots, nkeys>>
    /\ UNCHANGED <<sealVars, attVars, pc>>

\* POST /orderer/init
ApiChains == Chains \cup {"warm"}

api_initialize_orderer_keys ==
    /\ variant = "sgx" /\ up
    /\ \E chain \in ApiChains :
          IF chain \notin Chains
          THEN /\ last' = Result("initialize_orderer_keys", [chain |-> chain], FALSE,
                                 Http(400, "Invalid chain. Must be 'hot' or 'cold'"), <<>>)
               /\ UNCHANGED <<mem, disk, nkeys>>
          ELSE /\ nkeys < MaxKeys
               /\ \E nonce \in urandom(NONCE_LEN) :
                     LET k == nkeys + 1
                         sealed_key == SGXEnclave_seal_data(meas, nonce, PemPrivateKey(k))
                     IN  /\ mem' = [mem EXCEPT ![SgxOrdererSlot(chain)] = RSAPrivateKey(k)]
                         /\ disk' = [disk EXCEPT ![SgxOrdererFile(chain)] = Bytes(sealed_key)]
                         /\ nkeys' = k
                         /\ last' = Result("initialize_orderer_keys", [chain |-> chain], TRUE,
                                           Http(200, "success"), <<RSAPublicKey(k)>>)
    /\ UNCHANGED <<variant, up, meas, inst, files, issued, roots>>
    /\ UNCHANGED <<sealVars, attVars, pc>>

\* POST /unseal: the caller hands in sealed bytes and receives the plaintext
GarbageBlob == <<1>>
SealedOnDisk == {disk[f].data : f \in {g \in DOMAIN disk : exists(g) /\ disk[g].kind = "bytes"}}

api_unseal_data ==
    /\ variant = "sgx" /\ up
    /\ \E sealed \in SealedOnDisk \cup {GarbageBlob} :
          LET r == SGXEnclave_unseal_data(meas, sealed)
          IN  last' = IF r.ok
                      THEN Result("unseal_data", Bytes(sealed), TRUE, Http(200, "success"),
                                  <<Bytes(r.data)>>)
                      ELSE Result("unseal_data", Bytes(sealed), FALSE, Http(500, r.err), <<>>)
    /\ UNCHANGED <<variant, up, meas, mem, inst, disk, files, issued, roots, nkeys>>
    /\ UNCHANGED <<sealVars, attVars, pc>>

-----------------------------------------------------------------------------
(* The process *)

\* A new process over the same data directory, possibly of upgraded code.
\* enclave_api builds its SGXEnclave and loads the sealed Root CA on import (an
\* exception there ends the process); enclave_core starts with empty memory.
RestartMeasurements == {OwnMeasurement, MeasurementPair(2, OwnSigner)}

Restart ==
    /\ \E m \in RestartMeasurements :
          /\ meas' = m
          /\ IF variant = "core"
             THEN /\ mem' = EmptyMemory("core")
                  /\ up' = TRUE
                  /\ last' = Result("startup", None, TRUE, "", <<>>)
             ELSE LET r == SGXEnclave_load_sealed_root_ca(m, EmptyMemory("sgx"))
                  IN  /\ mem' = r.mem
                      /\ up' = r.ok
                      /\ last' = Result("startup", None, r.ok, r.err, <<Bool(r.ret)>>)
    /\ inst' = NoAttributes
    /\ UNCHANGED <<variant, disk, files, issued, roots, nkeys>>
    /\ UNCHANGED <<sealVars, attVars, pc>>

SealIdle ==
    /\ sPhase = "idle"
    /\ sVariant = "core"
    /\ sPayload = <<>>
    /\ sBlob = <<>>
    /\ sWire = <<>>
    /\ sMeas = OwnMeasurement
    /\ sResult = None

Init ==
    /\ variant \in Variants
    /\ up = TRUE
    /\ meas = OwnMeasurement
    /\ mem = EmptyMemory(variant)
    /\ inst = NoAttributes
    /\ disk = EmptyDisk(variant)
    /\ files = NoFiles
    /\ issued = {}
    /\ roots = {}
    /\ nkeys = 0
    /\ last = Result("startup", None, TRUE, "", <<Bool(FALSE)>>)
    /\ SealIdle
    /\ AttIdle
    /\ pc = AtRest

Next ==
    \/ Restart
    \/ EnclaveSimulator_generate_root_ca
    \/ LoadRootCA
    \/ SignCertificate
    \/ EnclaveSimulator_store_orderer_key
    \/ EnclaveSimulator_sign_block
    \/ FabricCertGenerator_init
    \/ FabricCertGenerator_generate_orderer_certs
    \/ api_initialize_root_ca
    \/ api_sign_certificate
    \/ api_initialize_orderer_keys
    \/ api_unseal_data

Spec == Init /\ [][Next]_vars

-----------------------------------------------------------------------------
(* Loading a Root CA from a data directory found in any condition *)

\* The sealed key file as an earlier run under the code's own measurements
\* left it, and what can have become of it since
SealedRootKeys(v, m) == SealOutputs(v, m, PemPrivateKey(1))

KeyFileContents(v) ==
    LET sealed == CHOOSE b \in SealedRootKeys(v, OwnMeasurement) : TRUE
    IN  {sealed, Take(sealed, Len(sealed) - 1), <<>>}
            \cup {AlterAt(sealed, i) : i \in 1..Len(sealed)}
            \cup SealedRootKeys(v, MeasurementPair(OwnCode, 12))

LoadInit ==
    /\ variant \in Variants
    /\ up = TRUE
    /\ meas = OwnMeasurement
    /\ mem = EmptyMemory(variant)
    /\ inst = NoAttributes
    /\ \E key_file \in {None} \cup {Bytes(b) : b \in KeyFileContents(variant)},
          cert_file \in {None, PemCertificate(
                                  IF variant = "core"
                                  THEN RootCertificate(CoreRootSubject, 1, NoPathLength)
                                  ELSE RootCertificate(SgxRootSubject, 1, 2))} :
          disk = [EmptyDisk(variant) EXCEPT ![KeyFile] = key_file, ![CertFile] = cert_file]
    /\ files = NoFiles
    /\ issued = {}
    /\ roots = {}
    /\ nkeys = 1
    /\ last = Result("none", None, TRUE, "", <<>>)
    /\ SealIdle
    /\ AttIdle
    /\ pc = AtRest

LoadNext ==
    \/ Restart
    \/ LoadRootCA

LoadSpec == LoadInit /\ [][LoadNext]_vars

-----------------------------------------------------------------------------
(* Key custody and certificate authority: claims *)

IsSign == last.op = "sign_certificate"
SignedCertificate == last.ret[1].cert
RootKeyResident == mem["root_ca_key"] # None

\* A private key in the clear: the key object, or bytes that parse as one
IsPlainPrivateKey(x) ==
    \/ x.kind = "RSAPrivateKey"
    \/ x.kind = "bytes" /\ load_pem_private_key(x.data).ok

PlainKeyId(x) == IF x.kind = "RSAPrivateKey" THEN x.id ELSE load_pem_private_key(x.data).key.id

\* The keys SecureMemory holds
ResidentKeyIds ==
    {mem[slot].id : slot \in {sl \in DOMAIN mem : mem[sl].kind = "RSAPrivateKey"}}

Leaks(x) == IsPlainPrivateKey(x) /\ PlainKeyId(x) \in ResidentKeyIds

\* C1: no operation hands a private key held in SecureMemory back to its caller
\* in the clear, and none is written in the clear to the data directory or to any
\* other file: outside SecureMemory the keys exist only sealed.
C1_KeysLeaveOnlySealed ==
    /\ \A i \in 1..Len(last.ret) : ~Leaks(last.ret[i])
    /\ \A f \in DOMAIN disk : ~Leaks(disk[f])
    /\ \A path \in OutPaths : ~Leaks(files[path])

\* C5: a data directory never sees a second successful Root CA initialization.
C5_AtMostOneRootCA == Cardinality(roots) <= 1

\* C6: every certificate issued so far names the persisted Root CA certificate's
\* subject as its issuer and verifies under that certificate's public key.
C6_IssuedChainToPersistedRoot ==
    \A c \in issued :
        /\ exists(CertFile)
        /\ c.issuer = disk[CertFile].cert.subject
        /\ VerifiesUnder(c, disk[CertFile].cert.public_key)

PolicyTypes == {"intermediate-ca", "orderer", "peer", "client"}
PolicyCA(cert_type) == cert_type = "intermediate-ca"
PolicyKeyUsage(cert_type) ==
    IF cert_type = "intermediate-ca" THEN {DigitalSignature, KeyCertSign, CrlSign}
    ELSE IF cert_type = "client" THEN {DigitalSignature}
    ELSE {DigitalSignature, KeyEncipherment}

\* C7: a certificate issued for one of the types intermediate-ca, orderer, peer,
\* client carries exactly the basic constraint and key usage the policy table
\* gives for that type.
C7_ExtensionPolicy ==
    (IsSign /\ last.ok /\ last.arg.cert_type \in PolicyTypes) =>
        /\ SignedCertificate.ca = PolicyCA(last.arg.cert_type)
        /\ SignedCertificate.key_usage = PolicyKeyUsage(last.arg.cert_type)

SignFailedNotInitialized ==
    /\ IsSign
    /\ ~last.ok
    /\ IF variant = "core"
       THEN last.err = "FileNotFoundError"
       ELSE last.err = Http(400, "Root CA not initialized")

\* C8 as stated: a SignCertificate call made while no Root CA key is resident
\* fails as not initialized, issues nothing and leaves SecureMemory and the data
\* directory as they were.
C8_SignRequiresResidentKey ==
    [][(IsSign' /\ ~RootKeyResident) =>
          /\ SignFailedNotInitialized'
          /\ issued' = issued
          /\ mem' = mem
          /\ disk' = disk]_vars

\* C8 amended: a SignCertificate call made while no Root CA key is resident and,
\* for the directly called simulator, no sealed Root CA key file is there to load
\* fails as not initialized, issues nothing and leaves SecureMemory and the data
\* directory as they were. (The directly called simulator otherwise loads the
\* sealed Root CA and signs; the REST service never loads on demand.)
C8_SignRequiresAvailableKey ==
    [][(IsSign' /\ ~RootKeyResident /\ (variant = "sgx" \/ ~exists(KeyFile))) =>
          /\ SignFailedNotInitialized'
          /\ issued' = issued
          /\ mem' = mem
          /\ disk' = disk]_vars

C8_Witness ==
    /\ SignFailedNotInitialized
    /\ ~RootKeyResident
    /\ last.arg.csr.kind = "pem_csr"

\* C10: a CSR whose self-signature does not verify gets no certificate.
C10_InvalidCsrRejected ==
    (IsSign /\ last.arg.csr.kind = "pem_csr" /\ ~is_signature_valid(last.arg.csr)) => ~last.ok

-----------------------------------------------------------------------------
(* Loading the Root CA: claims *)

IsLoad ==
    \/ variant = "core" /\ last.op = "load_root_ca"
    \/ variant = "sgx" /\ last.op = "startup"

KeyMissing == ~exists(KeyFile)
CertMissing == ~exists(CertFile)

\* The sealed key file yields a private key under the instance's measurements
KeyUnseals ==
    /\ exists(KeyFile)
    /\ LET unsealed == Unseal(variant, meas, disk[KeyFile].data)
       IN  unsealed.ok /\ load_pem_private_key(unsealed.data).ok

\* load_root_ca raises FileNotFoundError; load_sealed_root_ca returns False
LoadFailedNotInitialized ==
    IF variant = "core"
    THEN ~last.ok /\ last.err = "FileNotFoundError"
    ELSE last.ok /\ last.ret = <<Bool(FALSE)>>

LoadFailedIntegrity ==
    /\ ~last.ok
    /\ last.err \in IntegrityErrors \cup {"ValueError: Could not deserialize key data"}

\* C9: after LoadRootCA, a missing key or certificate file has made it fail as
\* not initialized, a key file that does not unseal to a key has made it fail
\* with an integrity error (when both hold, either failure), and the Root CA is
\* in SecureMemory only if both files are there and the key unseals.
C9_LoadRootCA ==
    IsLoad =>
        /\ ((KeyMissing \/ CertMissing) /\ (KeyMissing \/ KeyUnseals)) => LoadFailedNotInitialized
        /\ (~KeyMissing /\ ~KeyUnseals /\ ~CertMissing) => LoadFailedIntegrity
        /\ (~KeyMissing /\ ~KeyUnseals /\ CertMissing) =>
              (LoadFailedNotInitialized \/ LoadFailedIntegrity)
        /\ RootKeyResident => (~KeyMissing /\ ~CertMissing /\ KeyUnseals)

C9_Witness ==
    /\ IsLoad
    /\ ~KeyMissing /\ KeyUnseals /\ CertMissing
    /\ LoadFailedNotInitialized
    /\ ~RootKeyResident


-----------------------------------------------------------------------------
(* Remote attestation: Python values, the quote generators, the verifier *)

\* A Python str as its sequence of character codes, and a Python int; None is
\* the Python None that dict.get returns for a missing key
PyStr(s) == [str |-> s]
PyInt(n) == [int |-> n]

Get(d, k) == IF k \in DOMAIN d THEN d[k] ELSE None
Without(d, k) == [x \in DOMAIN d \ {k} |-> d[x]]

\* Python's order on str: lexicographic by character code
RECURSIVE StrGe(_, _)
StrGe(a, b) ==
    IF b = <<>> THEN TRUE
    ELSE IF a = <<>> THEN FALSE
    ELSE IF a[1] # b[1] THEN a[1] > b[1]
    ELSE StrGe(Tail(a), Tail(b))

JsonDumpsWithoutNonce(d) ==
    LET sorted == <<"attestation_public_key", "mr_enclave", "mr_signer", "quote",
                    "report_data", "signature", "tcb_level", "timestamp", "version">>
        keys == SelectSeq(sorted, LAMBDA k : k \in DOMAIN d)
    IN  [i \in 1..Len(keys) |-> <<keys[i], d[keys[i]]>>]

\* json.dumps(d, sort_keys=True): the members of d in the order of their keys
json_dumps(d) ==
    LET sorted == <<"attestation_public_key", "mr_enclave", "mr_signer", "nonce", "quote",
                    "report_data", "signature", "tcb_level", "timestamp", "version">>
        keys == SelectSeq(sorted, LAMBDA k : k \in DOMAIN d)
    IN  [i \in 1..Len(keys) |-> <<keys[i], d[keys[i]]>>]

\* hashlib.sha256(text).hexdigest(): a str, one per text (no collisions)
sha256_hexdigest(text) == [sha256 |-> text]

\* ---- the attesters
\* datetime.utcnow() is a naive reading of UTC. The conversions between naive
\* readings and timestamps go through the host's local time, tz seconds east
\* of UTC.

EnclaveSimulator_generate_attestation_quote(m, utcnow, tz, nonce, report_data) ==
    LET \* naive.timestamp(): the naive reading taken as local time
        naive_timestamp(naive) == naive - tz
        quote == [version |-> PyInt(3),
                  mr_enclave |-> PyStr(m.mr_enclave),
                  mr_signer |-> PyStr(m.mr_signer),
                  tcb_level |-> PyStr(<<49>>),
                  timestamp |-> PyInt(naive_timestamp(utcnow)),
                  nonce |-> nonce,
                  report_data |-> report_data]
    IN  quote @@ ("signature" :> sha256_hexdigest(json_dumps(quote)))

\* The SGX simulator's quote: the measurements sit inside "quote", under other
\* names, and the signature is RSA-PSS (salted) by the attestation key
SGXEnclave_generate_attestation_quote(m, utcnow, attestation_key, salt, user_data) ==
    LET quote_body == [version |-> PyInt(3),
                       sign_type |-> PyInt(1),
                       mrenclave |-> PyStr(m.mr_enclave),
                       mrsigner |-> PyStr(m.mr_signer),
                       product_id |-> PyInt(1),
                       security_version |-> PyInt(1),
                       attributes |-> [debug |-> FALSE, mode64bit |-> TRUE],
                       report_data |-> sha256_hexdigest(user_data),
                       timestamp |-> [isoformat |-> utcnow]]
    IN  [quote |-> quote_body,
         signature |-> [pss |-> attestation_key, salt |-> salt,
                        of |-> sha256_hexdigest(quote_body)],
         attestation_public_key |-> RSAPublicKey(attestation_key)]

\* ---- the verifier's policy

TRUSTED_MEASUREMENTS ==
    [allowed_mr_enclaves |-> <<>>,
     allowed_mr_signers |-> <<>>,
     minimum_tcb_level |-> PyStr(<<49>>),
     max_quote_age_seconds |-> 300]

\* Policy documents a verifier can be pointed at: a full one that trusts the
\* code's own measurements, and two that only raise the minimum TCB level
\* ("9", "10")
PolicyDocuments ==
    {[allowed_mr_enclaves |-> <<PyStr(OwnMeasurement.mr_enclave)>>,
      allowed_mr_signers |-> <<PyStr(OwnMeasurement.mr_signer)>>,
      minimum_tcb_level |-> PyStr(<<49>>),
      max_quote_age_seconds |-> 300],
     [minimum_tcb_level |-> PyStr(<<57>>)],
     [minimum_tcb_level |-> PyStr(<<49, 48>>)]}

\* load_policy: TRUSTED_MEASUREMENTS.update(policy) when the file exists
AttestationVerifier_load_policy(T, policy) ==
    IF policy = None THEN T
    ELSE [k \in DOMAIN T |-> IF k \in DOMAIN policy THEN policy[k] ELSE T[k]]

AppendUnconditionally(T, mr_enclave, mr_signer) ==
    [T EXCEPT !.allowed_mr_enclaves = Append(@, mr_enclave),
              !.allowed_mr_signers = Append(@, mr_signer)]

AttestationVerifier_add_trusted_measurement(T, mr_enclave, mr_signer) ==
    [T EXCEPT
       !.allowed_mr_enclaves =
            IF \E i \in 1..Len(@) : @[i] = mr_enclave THEN @ ELSE Append(@, mr_enclave),
       !.allowed_mr_signers =
            IF \E i \in 1..Len(@) : @[i] = mr_signer THEN @ ELSE Append(@, mr_signer)]

\* ---- verify_quote
\* The result is the dict verify_quote returns (without its own "timestamp"),
\* or, with raised = TRUE, the exception that leaves it. The signature check
\* sits in a try block, but nothing a quote of this model holds makes it raise.

\* A measurement is trusted in permissive mode (empty allow-list) or when listed
TrustedWhenListed(x, allowed) == \E i \in 1..Len(allowed) : allowed[i] = x
Trusted(x, allowed) == allowed = <<>> \/ \E i \in 1..Len(allowed) : allowed[i] = x

PassedAll(result, check) == [result EXCEPT !.checks = [c \in DOMAIN @ |-> TRUE]]
Passed(result, check) == [result EXCEPT !.checks[check] = TRUE]

AttestationVerifier_verify_quote(quote, T, utcnow, tz) ==
    LET \* "not x" is true of None, the empty string and zero
        Falsy(x) == x = None \/ x = PyStr(<<>>) \/ x = PyInt(0)
        \* a >= b is defined between two str and between two int
        PyGe(a, b) ==
            IF "str" \in DOMAIN a /\ "str" \in DOMAIN b THEN Ok(StrGe(a.str, b.str))
            ELSE IF "int" \in DOMAIN a /\ "int" \in DOMAIN b THEN Ok(a.int >= b.int)
            ELSE Raise("TypeError")
        \* datetime.fromtimestamp(t): t as a naive reading of local time
        fromtimestamp(t) == t + tz
        Rejected(r, reason) == [r EXCEPT !.reason = reason]
        Raised(r, e) == [r EXCEPT !.raised = TRUE, !.err = e]
        result == [raised |-> FALSE, err |-> "",
                   valid |-> FALSE, reason |-> "",
                   checks |-> [signature_valid |-> FALSE,
                               mrenclave_trusted |-> FALSE,
                               mrsigner_trusted |-> FALSE,
                               tcb_acceptable |-> FALSE,
                               timestamp_fresh |-> FALSE],
                   enclave_identity |-> None]
        signature == Get(quote, "signature")
        expected_signature == sha256_hexdigest(json_dumps(Without(quote, "signature")))
        mr_enclave == Get(quote, "mr_enclave")
        mr_signer == Get(quote, "mr_signer")
        tcb_level == Get(quote, "tcb_level")
        timestamp == Get(quote, "timestamp")
        r1 == Passed(result, "signature_valid")
        r2 == Passed(r1, "mrenclave_trusted")
        r3 == Passed(r2, "mrsigner_trusted")
        r4 == Passed(r3, "tcb_acceptable")
        r5 == Passed(r4, "timestamp_fresh")
        \* x[:32] in the rejection text needs a str
        Sliceable(x) == "str" \in DOMAIN x \/ "sha256" \in DOMAIN x
        tcb_ok == PyGe(tcb_level, T.minimum_tcb_level)
        age == utcnow - fromtimestamp(timestamp.int)
    IN  IF Falsy(signature) THEN Rejected(result, "Missing signature")
        ELSE IF signature # expected_signature
        THEN Rejected(result, "Signature verification failed")
        ELSE IF Falsy(mr_enclave) THEN Rejected(r1, "Missing MREnclave")
        ELSE IF ~Trusted(mr_enclave, T.allowed_mr_enclaves)
        THEN IF Sliceable(mr_enclave)
             THEN Rejected(r1, "MREnclave not in trusted policy")
             ELSE Raised(r1, "TypeError")
        ELSE IF Falsy(mr_signer) THEN Rejected(r2, "Missing MRSigner")
        ELSE IF ~Trusted(mr_signer, T.allowed_mr_signers)
        THEN IF Sliceable(mr_signer)
             THEN Rejected(r2, "MRSigner not in trusted policy")
             ELSE Raised(r2, "TypeError")
        ELSE IF Falsy(tcb_level) THEN Rejected(r3, "Missing TCB level")
        ELSE IF ~tcb_ok.ok THEN Raised(r3, tcb_ok.err)
        ELSE IF ~tcb_ok.data THEN Rejected(r3, "TCB level below minimum")
        ELSE IF Falsy(timestamp) THEN Rejected(r4, "Missing timestamp")
        ELSE IF "int" \notin DOMAIN timestamp THEN Raised(r4, "TypeError")
        ELSE IF age > T.max_quote_age_seconds THEN Rejected(r4, "Quote too old")
        ELSE [r5 EXCEPT !.valid = TRUE,
                        !.reason = "Attestation verified successfully",
                        !.enclave_identity = [mr_enclave |-> mr_enclave,
                                              mr_signer |-> mr_signer,
                                              tcb_level |-> tcb_level,
                                              quote_age_seconds |-> age]]

-----------------------------------------------------------------------------
(* Attestation run: verifiers are set up, a quote is issued, possibly altered
   on its way, and presented to one verifier *)

\* The measurements of a differently built enclave
OtherMeasurement == MeasurementPair(2, 12)

AttestInit ==
    /\ aPhase = "setup"
    /\ aPolicy = TRUSTED_MEASUREMENTS
    /\ aVerifiers = <<>>
    /\ aConfigured = <<>>
    /\ aTz = [attester |-> 0, verifier |-> 0]
    /\ aNow = 100000
    /\ aIssued = None
    /\ aOrig = None
    /\ aQuote = None
    /\ aResult = None
    /\ CaIdle
    /\ SealIdle
    /\ pc = AtRest

\* AttestationVerifier(policy_file): the constructor calls load_policy
AttestationVerifier_init ==
    /\ aPhase = "setup"
    /\ Len(aVerifiers) < MaxVerifiers
    /\ \E policy \in {None} \cup PolicyDocuments :
          /\ aVerifiers' = Append(aVerifiers, [policy_file |-> policy])
          /\ aPolicy' = AttestationVerifier_load_policy(aPolicy, policy)
          /\ aConfigured' = Append(aConfigured,
                                   AttestationVerifier_load_policy(TRUSTED_MEASUREMENTS, policy))
          /\ aResult' = [op |-> "load_policy"]
    /\ UNCHANGED <<aPhase, aTz, aNow, aIssued, aOrig, aQuote>>
    /\ UNCHANGED <<sealVars, caVars, pc>>

AddTrustedMeasurement ==
    /\ aPhase \in {"setup", "verifying"}
    /\ \E v \in 1..Len(aVerifiers) :
          LET mr_enclave == PyStr(OtherMeasurement.mr_enclave)
              mr_signer == PyStr(OtherMeasurement.mr_signer)
          IN  /\ aPolicy' = AttestationVerifier_add_trusted_measurement(
                                aPolicy, mr_enclave, mr_signer)
              /\ aConfigured' = [aConfigured EXCEPT ![v] =
                                    AttestationVerifier_add_trusted_measurement(
                                        @, mr_enclave, mr_signer)]
              /\ aResult' = [op |-> "add_trusted_measurement",
                             known |-> /\ mr_enclave \in {aPolicy.allowed_mr_enclaves[i] :
                                                           i \in 1..Len(aPolicy.allowed_mr_enclaves)}
                                       /\ mr_signer \in {aPolicy.allowed_mr_signers[i] :
                                                          i \in 1..Len(aPolicy.allowed_mr_signers)}]
    /\ UNCHANGED <<aPhase, aVerifiers, aTz, aNow, aIssued, aOrig, aQuote>>
    /\ UNCHANGED <<sealVars, caVars, pc>>

\* The attester's host has its own time zone and a clock that may run ahead
GenerateQuote ==
    /\ aPhase = "setup"
    /\ aVerifiers # <<>>
    /\ \E tz \in {0, 3600}, skew \in {0, 600} :
          LET quote == EnclaveSimulator_generate_attestation_quote(
                           meas, aNow + skew, tz, PyStr(<<97>>), PyStr(<<>>))
          IN  /\ aOrig' = quote
              /\ aQuote' = quote
              /\ aIssued' = [by |-> "core", at |-> aNow + skew]
              /\ aTz' = [aTz EXCEPT !.attester = tz]
    /\ aPhase' = "quoted"
    /\ aResult' = None
    /\ UNCHANGED <<aPolicy, aVerifiers, aConfigured, aNow>>
    /\ UNCHANGED <<sealVars, caVars, pc>>

GenerateQuoteSgx ==
    /\ aPhase = "setup"
    /\ aVerifiers # <<>>
    /\ \E skew \in {0, 600}, salt \in PssSalts :
          LET quote == SGXEnclave_generate_attestation_quote(
                           meas, aNow + skew, 104, salt, <<>>)
          IN  /\ aOrig' = quote
              /\ aQuote' = quote
              /\ aIssued' = [by |-> "sgx", at |-> aNow + skew]
    /\ aPhase' = "quoted"
    /\ aResult' = None
    /\ UNCHANGED <<aPolicy, aVerifiers, aConfigured, aNow, aTz>>
    /\ UNCHANGED <<sealVars, caVars, pc>>

\* One field of the quote is changed or removed on the way to the verifier
TamperQuote ==
    /\ aPhase = "quoted"
    /\ aIssued.by = "core"
    /\ aQuote = aOrig
    /\ LET values(field) ==
               CASE field = "mr_enclave" ->
                       {PyStr(OtherMeasurement.mr_enclave), PyStr(<<48, 48, 48, 48>>),
                        PyStr(<<>>), PyInt(7)}
                 [] field = "mr_signer" -> {PyStr(OtherMeasurement.mr_signer), PyStr(<<>>)}
                 [] field = "tcb_level" ->
                       {PyStr(<<57>>), PyStr(<<49, 48>>), PyStr(<<>>), PyInt(1)}
                 [] field = "timestamp" -> {PyInt(0), PyStr(<<110, 111, 119>>)}
                 [] field = "nonce" -> {PyStr(<<98>>)}
                 [] field = "report_data" -> {PyStr(<<120>>)}
                 [] field = "version" -> {PyInt(4)}
                 [] field = "signature" -> {PyStr(<<48, 48, 48, 48>>), PyStr(<<>>)}
       IN  \E field \in DOMAIN aQuote :
              \/ aQuote' = Without(aQuote, field)
              \/ \E value \in values(field) : aQuote' = [aQuote EXCEPT ![field] = value]
    /\ UNCHANGED <<aPhase, aPolicy, aVerifiers, aConfigured, aTz, aNow, aIssued, aOrig, aResult>>
    /\ UNCHANGED <<sealVars, caVars, pc>>

\* Whoever holds the quote recomputes the digest over its present fields, as
\* the rogue enclave of test_fabric_attestation.py does
ResignQuote ==
    /\ aPhase = "quoted"
    /\ aIssued.by = "core"
    /\ LET quote == Without(aQuote, "signature")
           signature == sha256_hexdigest(json_dumps(quote))
       IN  /\ Get(aQuote, "signature") # signature
           /\ aQuote' = quote @@ ("signature" :> signature)
    /\ UNCHANGED <<aPhase, aPolicy, aVerifiers, aConfigured, aTz, aNow, aIssued, aOrig, aResult>>
    /\ UNCHANGED <<sealVars, caVars, pc>>

\* verifier.verify_quote(quote), some time later, on a host in some time zone
VerifyQuote ==
    /\ aPhase = "quoted"
    /\ \E v \in 1..Len(aVerifiers), elapsed \in {0, 300, 301}, tz \in {0, 3600} :
          /\ aNow' = aNow + elapsed
          /\ aTz' = [aTz EXCEPT !.verifier = tz]
          /\ aResult' = [verifier |-> v,
                         result |-> AttestationVerifier_verify_quote(
                                        aQuote, aPolicy, aNow + elapsed, tz)]
    /\ aPhase' = "verified"
    /\ UNCHANGED <<aPolicy, aVerifiers, aConfigured, aIssued, aOrig, aQuote>>
    /\ UNCHANGED <<sealVars, caVars, pc>>

AttestNext ==
    \/ AttestationVerifier_init
    \/ AddTrustedMeasurement
    \/ GenerateQuote
    \/ GenerateQuoteSgx
    \/ TamperQuote
    \/ ResignQuote
    \/ VerifyQuote

AttestSpec == AttestInit /\ [][AttestNext]_vars

-----------------------------------------------------------------------------
(* Properties of the verifier *)

Verified == aPhase = "verified"
VerifyResult == aResult.result
Returned == Verified /\ ~VerifyResult.raised
Unmodified == aQuote = aOrig
Elems(list) == {list[i] : i \in 1..Len(list)}
NoDuplicates(list) == Cardinality(Elems(list)) = Len(list)

SignatureReasons ==
    {"Missing signature", "Signature verification failed", "Signature verification error"}
EnclaveReasons == {"Missing MREnclave", "MREnclave not in trusted policy"}
SignerReasons == {"Missing MRSigner", "MRSigner not in trusted policy"}
TcbReasons == {"Missing TCB level", "TCB level below minimum"}
FreshnessReasons == {"Missing timestamp", "Quote too old"}

\* A measurement or a TCB level as the quote format carries it: a non-empty str
IsText(x) == "str" \in DOMAIN x /\ x.str # <<>>
IsDecimal(x) == IsText(x) /\ \A i \in 1..Len(x.str) : x.str[i] \in 48..57

RECURSIVE DecimalValue(_)
DecimalValue(s) ==
    IF s = <<>> THEN 0 ELSE 10 * DecimalValue(DropLast(s, 1)) + (s[Len(s)] - 48)

\* The policy lets the attesting enclave through: each allow-list is empty or
\* holds its measurement, and its TCB level "1" is numerically high enough
PolicyAdmitsAttester ==
    /\ aPolicy.allowed_mr_enclaves = <<>>
          \/ PyStr(meas.mr_enclave) \in Elems(aPolicy.allowed_mr_enclaves)
    /\ aPolicy.allowed_mr_signers = <<>>
          \/ PyStr(meas.mr_signer) \in Elems(aPolicy.allowed_mr_signers)
    /\ DecimalValue(<<49>>) >= DecimalValue(aPolicy.minimum_tcb_level.str)

\* Seconds between the attester issuing the quote and the verifier's "now"
QuoteAge == aNow - aIssued.at

\* C11: every quote an attester generates, presented unmodified and within
\* max_quote_age to a verifier whose policy is permissive or trusts the
\* quote's measurements, is accepted: valid is true and all five checks are true
C11_AttesterVerifierAgreement ==
    (/\ Verified
     /\ Unmodified
     /\ QuoteAge \in 0..aPolicy.max_quote_age_seconds
     /\ PolicyAdmitsAttester)
        => /\ ~VerifyResult.raised
           /\ VerifyResult.valid
           /\ \A c \in DOMAIN VerifyResult.checks : VerifyResult.checks[c]

\* Fields of the attester's quote that reach the verifier changed or removed
ChangedFields == {f \in DOMAIN aOrig : Get(aQuote, f) # aOrig[f]}

SingleFieldChanged ==
    /\ Verified
    /\ aIssued.by = "core"
    /\ Cardinality(ChangedFields) = 1
    /\ "signature" \notin ChangedFields

\* C12: when one field other than the signature of a core quote is changed
\* (or removed) and the signature is left as it was, verify_quote returns
\* valid = false with a signature reason, whatever the policy
C12_SignatureBinding ==
    SingleFieldChanged
        => /\ ~VerifyResult.raised
           /\ ~VerifyResult.valid
           /\ ~VerifyResult.checks.signature_valid
           /\ VerifyResult.reason \in SignatureReasons

C12_Witness ==
    /\ SingleFieldChanged
    /\ ChangedFields = {"mr_enclave"}
    /\ Get(aQuote, "mr_enclave") = PyStr(<<48, 48, 48, 48>>)
    /\ VerifyResult.reason = "Signature verification failed"

\* C13: for a quote with a valid signature that carries measurements, the
\* code-measurement check passes exactly when allowed_mr_enclaves is empty or
\* holds the quote's mr_enclave, and otherwise the quote is rejected as not
\* in the trusted policy; the signer check does the same on allowed_mr_signers
C13_PolicyEnforcement ==
    (/\ Verified
     /\ VerifyResult.checks.signature_valid
     /\ IsText(Get(aQuote, "mr_enclave")))
        => LET enclave_allowed ==
                   \/ aPolicy.allowed_mr_enclaves = <<>>
                   \/ aQuote.mr_enclave \in Elems(aPolicy.allowed_mr_enclaves)
               signer_allowed ==
                   \/ aPolicy.allowed_mr_signers = <<>>
                   \/ aQuote.mr_signer \in Elems(aPolicy.allowed_mr_signers)
           IN  /\ VerifyResult.checks.mrenclave_trusted <=> enclave_allowed
               /\ ~enclave_allowed
                     => /\ ~VerifyResult.raised
                        /\ ~VerifyResult.valid
                        /\ VerifyResult.reason = "MREnclave not in trusted policy"
               /\ (enclave_allowed /\ IsText(Get(aQuote, "mr_signer")))
                     => /\ VerifyResult.checks.mrsigner_trusted <=> signer_allowed
                        /\ ~signer_allowed
                              => /\ ~VerifyResult.raised
                                 /\ ~VerifyResult.valid
                                 /\ VerifyResult.reason = "MRSigner not in trusted policy"

\* A re-signed quote of another enclave is turned away by a populated policy
C13_Witness ==
    /\ Verified
    /\ VerifyResult.checks.signature_valid
    /\ Get(aQuote, "mr_enclave") = PyStr(OtherMeasurement.mr_enclave)
    /\ aPolicy.allowed_mr_enclaves = <<PyStr(OwnMeasurement.mr_enclave)>>
    /\ ~VerifyResult.valid
    /\ VerifyResult.reason = "MREnclave not in trusted policy"

\* C14: tcb_level is compared with minimum_tcb_level by numeric value: once
\* the first three checks have passed, the TCB check passes exactly when the
\* quote's level is numerically at least the minimum
C14_NumericTrustLevel ==
    (/\ Verified
     /\ VerifyResult.checks.mrsigner_trusted
     /\ IsDecimal(Get(aQuote, "tcb_level")))
        => (VerifyResult.checks.tcb_acceptable
              <=> DecimalValue(aQuote.tcb_level.str)
                     >= DecimalValue(aPolicy.minimum_tcb_level.str))

\* C15: an unmodified quote that passes the first four checks is rejected as
\* too old when its age exceeds max_quote_age_seconds, and passes the
\* freshness check when its age lies between 0 and max_quote_age_seconds
C15_Freshness ==
    (/\ Verified
     /\ aIssued.by = "core"
     /\ Unmodified
     /\ VerifyResult.checks.tcb_acceptable)
        => /\ QuoteAge > aPolicy.max_quote_age_seconds
                 => /\ ~VerifyResult.valid
                    /\ VerifyResult.reason = "Quote too old"
           /\ QuoteAge \in 0..aPolicy.max_quote_age_seconds
                 => VerifyResult.checks.timestamp_fresh

\* C16: a quote issued in the verifier's future (negative age) never passes
\* the freshness check and is not accepted
C16_FutureQuoteRejected ==
    (/\ Verified
     /\ aIssued.by = "core"
     /\ Unmodified
     /\ QuoteAge < 0)
        => /\ ~VerifyResult.raised
           /\ ~VerifyResult.valid
           /\ ~VerifyResult.checks.timestamp_fresh

CheckOrder ==
    <<"signature_valid", "mrenclave_trusted", "mrsigner_trusted",
      "tcb_acceptable", "timestamp_fresh">>
CheckReasons ==
    <<SignatureReasons, EnclaveReasons, SignerReasons, TcbReasons, FreshnessReasons>>

\* C17: in every result the true checks are a prefix of the fixed order,
\* valid holds exactly when all five are true, and the reason of a rejection
\* belongs to the first check that is false, no reason serving two checks
C17_CheckOrder ==
    Returned
        => LET checks == VerifyResult.checks
           IN  /\ \A i \in 2..5 : checks[CheckOrder[i]] => checks[CheckOrder[i - 1]]
               /\ VerifyResult.valid <=> \A i \in 1..5 : checks[CheckOrder[i]]
               /\ VerifyResult.valid
                     => VerifyResult.reason = "Attestation verified successfully"
               /\ \A i \in 1..5 :
                     (/\ ~checks[CheckOrder[i]]
                      /\ \A j \in 1..(i - 1) : checks[CheckOrder[j]])
                        => VerifyResult.reason \in CheckReasons[i]
               /\ \A i, j \in 1..5 : i # j => CheckReasons[i] \cap CheckReasons[j] = {}

\* A quote that got past the two measurement checks and failed the TCB check
C17_Witness ==
    /\ Returned
    /\ VerifyResult.checks.mrsigner_trusted
    /\ ~VerifyResult.checks.tcb_acceptable
    /\ VerifyResult.reason = "TCB level below minimum"

\* C18: each verifier works with the policy its own operations set up:
\* what another instance loads or adds changes neither its allow-lists and
\* thresholds nor the result of its verify_quote
C18_VerifierIsolation ==
    /\ aPhase # "idle" => \A v \in 1..Len(aVerifiers) : aPolicy = aConfigured[v]
    /\ Verified
          => VerifyResult = AttestationVerifier_verify_quote(
                                aQuote, aConfigured[aResult.verifier], aNow, aTz.verifier)

TrustCandidates ==
    {<<PyStr(m.mr_enclave), PyStr(m.mr_signer)>> : m \in {OwnMeasurement, OtherMeasurement}}

\* C19: add_trusted_measurement is idempotent: on duplicate-free lists a
\* second call with the same pair leaves the policy as the first call left
\* it, and no list ever holds a measurement twice
C19_AddIdempotent ==
    aPhase # "idle"
        => /\ NoDuplicates(aPolicy.allowed_mr_enclaves)
           /\ NoDuplicates(aPolicy.allowed_mr_signers)
           /\ \A pair \in TrustCandidates :
                 LET once == AttestationVerifier_add_trusted_measurement(
                                 aPolicy, pair[1], pair[2])
                     twice == AttestationVerifier_add_trusted_measurement(
                                  once, pair[1], pair[2])
                 IN  /\ twice = once
                     /\ NoDuplicates(once.allowed_mr_enclaves)
                     /\ NoDuplicates(once.allowed_mr_signers)
                     /\ pair[1] \in Elems(once.allowed_mr_enclaves)
                     /\ pair[2] \in Elems(once.allowed_mr_signers)

\* The pair was added while the policy already held it
C19_Witness ==
    /\ aPhase = "setup"
    /\ aResult # None
    /\ aResult.op = "add_trusted_measurement"
    /\ aResult.known
    /\ PyStr(OtherMeasurement.mr_enclave) \in Elems(aPolicy.allowed_mr_enclaves)
    /\ NoDuplicates(aPolicy.allowed_mr_enclaves)

\* C20: whatever the quote holds (missing, empty, zero or wrongly typed
\* fields), verify_quote returns a result, and a rejection carries a
\* non-empty reason belonging to the failing verification step
C20_FailureIsValue ==
    Verified
        => /\ ~VerifyResult.raised
           /\ ~VerifyResult.valid
                 => VerifyResult.reason \in
                       (SignatureReasons \cup EnclaveReasons \cup SignerReasons
                          \cup TcbReasons \cup FreshnessReasons)

-----------------------------------------------------------------------------
(* Orderer keys and the Root CA slots: claims *)

IsSignBlock == variant = "core" /\ last.op = "sign_block"
OrdererKeyResident == mem["orderer_key"] # None

\* The sealed forms a key can have on disk
SealedForms(key_pem) == UNION {SealOutputs(variant, m, key_pem) : m \in Measurements}
HoldsSealed(f, key_pem) == exists(f) /\ disk[f].kind = "bytes" /\ disk[f].data \in SealedForms(key_pem)

\* C21: sign_block succeeds whenever the orderer key is resident or its sealed
\* file is on disk, fails with the key-not-found error exactly when neither is
\* the case, and signs with the key that is stored
C21_SignBlockAvailability ==
    IsSignBlock =>
        /\ last.ok <=> (OrdererKeyResident \/ exists(CoreOrdererFile))
        /\ ~last.ok => last.err = "Exception: Orderer key not found in enclave"
        /\ last.ok => HoldsSealed(CoreOrdererFile, PemPrivateKey(last.ret[1].key))

\* The two slots are both empty or hold the key and the certificate of one Root CA
RootSlotsTogether(key, cert) ==
    IF key = None THEN cert = None
    ELSE /\ cert # None
         /\ key.kind = "RSAPrivateKey"
         /\ cert.public_key = key.id
         /\ cert.signed_by = key.id

\* C29: whenever no operation is in progress, the root_ca_key and root_ca_cert
\* slots are both empty or hold the key and the certificate of one Root CA,
\* and the copy kept on the instance equals the slots
C29_RootSlotsMoveTogether ==
    (\A t \in 1..MaxThreads : pc[t].at = "idle") =>
        /\ RootSlotsTogether(mem["root_ca_key"], mem["root_ca_cert"])
        /\ (inst # NoAttributes)
             => (inst.ca_key = mem["root_ca_key"] /\ inst.ca_cert = mem["root_ca_cert"])

\* The SecureMemory slots of orderer keys, each with its sealed file
OrdererSlots == IF variant = "core" THEN {<<"orderer_key", CoreOrdererFile>>}
                ELSE {<<SgxOrdererSlot(c), SgxOrdererFile(c)>> : c \in Chains}

\* C30: a resident orderer key is the key whose sealed file is on disk, and a
\* store that fails on malformed key material leaves the sealed file and the
\* resident key as they were
C30_OrdererMemoryDiskAgreement ==
    /\ \A s \in OrdererSlots :
          mem[s[1]] # None => HoldsSealed(s[2], PemPrivateKey(mem[s[1]].id))
    /\ (last.op = "store_orderer_key" /\ ~last.ok)
          => ~HoldsSealed(CoreOrdererFile, last.arg.data)

-----------------------------------------------------------------------------
(* Orderer keys of both chains over a data directory that holds a Root CA *)

\* The Root CA of an earlier run, sealed under the code's own measurements;
\* enclave_api has loaded it on import, enclave_core starts with empty memory
OrdererInit ==
    /\ variant \in Variants
    /\ up = TRUE
    /\ meas = OwnMeasurement
    /\ inst = NoAttributes
    /\ LET root_key == 100
           cert == IF variant = "core"
                   THEN RootCertificate(CoreRootSubject, root_key, NoPathLength)
                   ELSE RootCertificate(SgxRootSubject, root_key, 2)
       IN  /\ \E sealed \in SealOutputs(variant, OwnMeasurement, PemPrivateKey(root_key)) :
                 disk = [EmptyDisk(variant) EXCEPT ![KeyFile] = Bytes(sealed),
                                                   ![CertFile] = PemCertificate(cert)]
           /\ mem = IF variant = "core" THEN EmptyMemory("core")
                    ELSE [EmptyMemory("sgx") EXCEPT !["root_ca_key"] = RSAPrivateKey(root_key),
                                                    !["root_ca_cert"] = cert]
           /\ roots = {root_key}
    /\ files = NoFiles
    /\ issued = {}
    /\ nkeys = 0
    /\ last = Result("startup", None, TRUE, "", <<Bool(variant = "sgx")>>)
    /\ SealIdle
    /\ AttIdle
    /\ pc = AtRest

OrdererNext ==
    \/ Restart
    \/ FabricCertGenerator_init
    \/ FabricCertGenerator_generate_orderer_certs
    \/ EnclaveSimulator_sign_block
    \/ api_initialize_orderer_keys

OrdererSpec == OrdererInit /\ [][OrdererNext]_vars

\* The orderer signing keys the chain has been given
ChainKeyPems(c) ==
    IF variant = "core"
    THEN IF files[KeystorePath(c)] = None THEN {} ELSE {files[KeystorePath(c)].data}
    ELSE IF mem[SgxOrdererSlot(c)] = None THEN {}
         ELSE {PemPrivateKey(mem[SgxOrdererSlot(c)].id)}

\* C22: orderer keys are kept per chain: once a chain has its key, that key
\* stays sealed on disk whatever is generated or stored for the other chain
C22_OrdererKeysPerChain ==
    \A c \in Chains : \A key_pem \in ChainKeyPems(c) :
        \E s \in OrdererSlots : HoldsSealed(s[2], key_pem)

-----------------------------------------------------------------------------
(* enclave_api under requests served at the same time: each request runs on
   its own thread, and no lock guards enclave._secure_memory or the files of
   the data directory *)

RaceInit == Init /\ variant = "sgx"

\* POST /ca/init on one thread, statement by statement: the test of the key
\* slot and the key generation, the two slot assignments, the sealed key file
\* opened for writing and written, the certificate file written and the answer
initialize_root_ca_thread ==
    /\ variant = "sgx" /\ up
    /\ \E t \in 1..MaxThreads :
          LET at == pc[t].at
              local == pc[t].local
              goto(a, l) == pc' = [pc EXCEPT ![t] = [at |-> a, local |-> l, response |-> None]]
              answer(status) == pc' = [pc EXCEPT ![t] = [at |-> "idle", local |-> None,
                                                         response |-> [status |-> status]]]
              cert == RootCertificate(SgxRootSubject, local.k, 2)
          IN  \/ /\ at = "idle"
                 /\ mem["root_ca_key"] # None
                 /\ answer(400)
                 /\ last' = Result("initialize_root_ca", None, FALSE,
                                   Http(400, "Root CA already initialized"), <<>>)
                 /\ UNCHANGED <<mem, disk, nkeys, roots>>
              \/ /\ at = "idle"
                 /\ mem["root_ca_key"] = None
                 /\ nkeys < MaxKeys
                 /\ goto("generated", [k |-> nkeys + 1])
                 /\ nkeys' = nkeys + 1
                 /\ roots' = roots \cup {nkeys + 1}
                 /\ UNCHANGED <<mem, disk, last>>
              \/ /\ at = "generated"
                 /\ mem' = [mem EXCEPT !["root_ca_key"] = RSAPrivateKey(local.k)]
                 /\ goto("key_set", local)
                 /\ UNCHANGED <<disk, nkeys, roots, last>>
              \/ /\ at = "key_set"
                 /\ mem' = [mem EXCEPT !["root_ca_cert"] = cert]
                 /\ goto("cert_set", local)
                 /\ UNCHANGED <<disk, nkeys, roots, last>>
              \/ /\ at = "cert_set"
                 /\ \E nonce \in urandom(NONCE_LEN) :
                       goto("key_file_open",
                            [k |-> local.k,
                             sealed_key |-> SGXEnclave_seal_data(meas, nonce, PemPrivateKey(local.k))])
                 /\ disk' = [disk EXCEPT ![KeyFile] = Bytes(<<>>)]
                 /\ UNCHANGED <<mem, nkeys, roots, last>>
              \/ /\ at = "key_file_open"
                 /\ disk' = [disk EXCEPT ![KeyFile] = Bytes(local.sealed_key)]
                 /\ goto("key_file_written", local)
                 /\ UNCHANGED <<mem, nkeys, roots, last>>
              \/ /\ at = "key_file_written"
                 /\ disk' = [disk EXCEPT ![CertFile] = PemCertificate(cert)]
                 /\ answer(200)
                 /\ last' = Result("initialize_root_ca", None, TRUE, Http(200, "success"),
                                   <<PemCertificate(cert)>>)
                 /\ UNCHANGED <<mem, nkeys, roots>>
    /\ UNCHANGED <<variant, up, meas, inst, files, issued>>
    /\ UNCHANGED <<sealVars, attVars>>

\* POST /ca/sign served while /ca/init requests are in progress: it reads both
\* slots as they are at that moment
sign_certificate_thread ==
    /\ variant = "sgx" /\ up
    /\ LET csr == CsrFor("CN=peer0.lawenforcement.hot-chain.com", TlsKey, TlsKey)
           arg == [csr |-> csr, cert_type |-> DefaultCertType]
           r == SGXEnclave_sign_certificate(csr, DefaultCertType, DefaultValidityDays)
       IN  IF api_root_ca_key_missing
           THEN /\ last' = Result("sign_certificate", arg, FALSE,
                                  Http(400, "Root CA not initialized"), <<>>)
                /\ UNCHANGED issued
           ELSE IF mem["root_ca_cert"] = None
           THEN /\ last' = Result("sign_certificate", arg, FALSE,
                                  Http(500, "'NoneType' object has no attribute 'subject'"), <<>>)
                /\ UNCHANGED issued
           ELSE /\ last' = Result("sign_certificate", arg, TRUE, Http(200, "success"),
                                  <<PemCertificate(r.cert)>>)
                /\ issued' = issued \cup {IssuedAs(r.cert)}
    /\ UNCHANGED <<variant, up, meas, mem, inst, disk, files, roots, nkeys>>
    /\ UNCHANGED <<sealVars, attVars, pc>>

\* The process dies in the middle of a request and is started again over the
\* data directory as the request left it
Crash ==
    /\ variant = "sgx" /\ up
    /\ \E t \in 1..MaxThreads : pc[t].at # "idle"
    /\ LET r == SGXEnclave_load_sealed_root_ca(meas, EmptyMemory("sgx"))
       IN  /\ mem' = r.mem
           /\ up' = r.ok
           /\ last' = Result("startup", None, r.ok, r.err, <<Bool(r.ret)>>)
    /\ pc' = AtRest
    /\ UNCHANGED <<variant, meas, inst, disk, files, issued, roots, nkeys>>
    /\ UNCHANGED <<sealVars, attVars>>

RaceNext ==
    \/ initialize_root_ca_thread
    \/ sign_certificate_thread
    \/ Crash

RaceSpec == RaceInit /\ [][RaceNext]_vars

\* No request is in progress
Quiescent == \A t \in 1..MaxThreads : pc[t].at = "idle"

\* The Root CA in SecureMemory is the one on disk
ResidentRootOnDisk ==
    /\ HoldsSealed(KeyFile, PemPrivateKey(mem["root_ca_key"].id))
    /\ disk[CertFile] = PemCertificate(mem["root_ca_cert"])

\* C23: of InitRootCA requests served at the same time at most one generates a
\* Root CA and the others are refused; once the requests are over, the sealed
\* key on disk, the certificate on disk and the two slots belong to one Root
\* CA; SignCertificate never signs with one Root CA's key under another's
\* certificate
C23_AtomicInitRefusal ==
    /\ Cardinality({t \in 1..MaxThreads : pc[t].response = [status |-> 200]}) <= 1
    /\ (Quiescent /\ mem["root_ca_key"] # None) =>
          /\ RootSlotsTogether(mem["root_ca_key"], mem["root_ca_cert"])
          /\ ResidentRootOnDisk
    /\ (last.op = "sign_certificate" /\ last.ok) =>
          mem["root_ca_cert"].public_key = mem["root_ca_key"].id

\* C25: whenever the process comes up again after dying in the middle of
\* InitRootCA, the data directory holds no Root CA file at all or the sealed
\* key and the certificate of one Root CA, and the load at startup succeeds
C25_CrashAtomicity ==
    (variant = "sgx" /\ last.op = "startup") =>
        \/ ~exists(KeyFile) /\ ~exists(CertFile) /\ mem["root_ca_key"] = None
        \/ /\ last.ok
           /\ mem["root_ca_key"] # None
           /\ RootSlotsTogether(mem["root_ca_key"], mem["root_ca_cert"])
           /\ ResidentRootOnDisk

-----------------------------------------------------------------------------
(* A verifier in use: quotes are verified while another caller extends the
   policy, and a verified quote is presented again. Nothing in
   attestation_verifier.py keeps one call from running during another *)

\* verify_quote on thread 1 as far as check 2: the signature is checked and the
\* enclave allow-list is read
verify_quote_begin ==
    /\ aPhase = "quoted"
    /\ pc = AtRest
    /\ \E v \in 1..Len(aVerifiers), elapsed \in {0, 300, 301}, tz \in {0, 3600} :
          /\ aNow' = aNow + elapsed
          /\ aTz' = [aTz EXCEPT !.verifier = tz]
          /\ pc' = [pc EXCEPT ![1] = [at |-> "check_2_done",
                                      local |-> [verifier |-> v, policy |-> aPolicy],
                                      response |-> None]]
    /\ aPhase' = "verifying"
    /\ UNCHANGED <<aPolicy, aVerifiers, aConfigured, aIssued, aOrig, aQuote, aResult>>
    /\ UNCHANGED <<sealVars, caVars>>

\* checks 3 to 5 read the signer allow-list, the minimum level and the maximum
\* age as they are by then; the result is returned
verify_quote_end ==
    /\ aPhase = "verifying"
    /\ pc[1].at = "check_2_done"
    /\ LET seen == [aPolicy EXCEPT !.allowed_mr_enclaves =
                                       pc[1].local.policy.allowed_mr_enclaves]
       IN  aResult' = [verifier |-> pc[1].local.verifier,
                       result |-> AttestationVerifier_verify_quote(
                                      aQuote, seen, aNow, aTz.verifier)]
    /\ pc' = [pc EXCEPT ![1].at = "returned"]
    /\ aPhase' = "verified"
    /\ UNCHANGED <<aPolicy, aVerifiers, aConfigured, aTz, aNow, aIssued, aOrig, aQuote>>
    /\ UNCHANGED <<sealVars, caVars>>

\* A verifier that remembers nonces would not leave the quote as it was given
VerifyAgainConsumingNonce ==
    /\ aPhase = "verified"
    /\ LET replays == IF "replay" \in DOMAIN aResult THEN aResult.replay ELSE 0
       IN  /\ replays < MaxReplays
           /\ \E v \in 1..Len(aVerifiers), elapsed \in {0, 300, 301} :
                 /\ aNow' = aNow + elapsed
                 /\ aResult' = [verifier |-> v,
                                result |-> AttestationVerifier_verify_quote(
                                               aQuote, aPolicy, aNow + elapsed, aTz.verifier),
                                replay |-> replays + 1]
    /\ aQuote' = Without(aQuote, "nonce")
    /\ pc' = AtRest
    /\ UNCHANGED <<aPhase, aPolicy, aVerifiers, aConfigured, aTz, aIssued, aOrig>>
    /\ UNCHANGED <<sealVars, caVars>>

\* The quote that was verified is presented again, to any verifier of the
\* process on the same host, at once or later
VerifyAgain ==
    /\ aPhase = "verified"
    /\ LET replays == IF "replay" \in DOMAIN aResult THEN aResult.replay ELSE 0
       IN  /\ replays < MaxReplays
           /\ \E v \in 1..Len(aVerifiers), elapsed \in {0, 300, 301} :
                 /\ aNow' = aNow + elapsed
                 /\ aResult' = [verifier |-> v,
                                result |-> AttestationVerifier_verify_quote(
                                               aQuote, aPolicy, aNow + elapsed, aTz.verifier),
                                replay |-> replays + 1]
    /\ pc' = AtRest
    /\ UNCHANGED <<aPhase, aPolicy, aVerifiers, aConfigured, aTz, aIssued, aOrig, aQuote>>
    /\ UNCHANGED <<sealVars, caVars>>

VerifierNext ==
    \/ AttestationVerifier_init
    \/ AddTrustedMeasurement
    \/ GenerateQuote
    \/ VerifyQuote
    \/ verify_quote_begin
    \/ verify_quote_end
    \/ VerifyAgain

VerifierSpec == AttestInit /\ [][VerifierNext]_vars

\* C24: the result of a verify_quote during which add_trusted_measurement ran
\* is the result verify_quote gives on the policy as it was before, or on the
\* policy as it is after
C24_NoTornPolicyRead ==
    (Verified /\ pc[1].at = "returned") =>
        VerifyResult \in
            {AttestationVerifier_verify_quote(aQuote, T, aNow, aTz.verifier) :
                 T \in {pc[1].local.policy, aPolicy}}

\* C26: presenting a quote again changes neither the policy nor the quote, and
\* a quote that verified as valid verifies as valid again as long as its age
\* is within max_quote_age_seconds
C26_ReplayWithinFreshness ==
    [][(Verified /\ Verified') =>
          /\ aPolicy' = aPolicy
          /\ aQuote' = aQuote
          /\ (VerifyResult.valid /\ aNow' - aIssued.at <= aPolicy.max_quote_age_seconds)
                => VerifyResult'.valid]_vars

C26_Witness ==
    /\ Verified
    /\ "replay" \in DOMAIN aResult
    /\ aResult.replay = MaxReplays
    /\ VerifyResult.valid
    /\ QuoteAge = 300

\* C27: the result of a quote that passed a measurement check only because
\* the allow-list was empty differs from the result the same quote gets when
\* it passes by being listed
C27_PermissivePassFlagged ==
    (/\ Returned
     /\ VerifyResult.valid
     /\ aPolicy.allowed_mr_enclaves = <<>>
     /\ aPolicy.allowed_mr_signers = <<>>)
        => VerifyResult #
              AttestationVerifier_verify_quote(
                  aQuote,
                  [aPolicy EXCEPT !.allowed_mr_enclaves = <<Get(aQuote, "mr_enclave")>>,
                                  !.allowed_mr_signers = <<Get(aQuote, "mr_signer")>>],
                  aNow, aTz.verifier)

\* C28: a verifier constructed without a policy file starts with the default
\* policy, whatever earlier verifiers of the process have loaded or added
C28_FreshVerifierDefaultPolicy ==
    (/\ aPhase = "setup"
     /\ aResult = [op |-> "load_policy"]
     /\ aVerifiers[Len(aVerifiers)].policy_file = None)
        => aPolicy = TRUSTED_MEASUREMENTS


=============================================================================
